---- MODULE Spec2Model ----
(***************************************************************************)
(* State-machine model of estimations.py: main() loads the observation     *)
(* table and the causal graph, estimate_effects() builds a DoWhy causal    *)
(* model, identifies the estimand and runs four estimators inside a        *)
(* per-method try/except, and main() prints the report.                    *)
(*                                                                         *)
(* Every call that leaves the script (structure_data, open, pickle,        *)
(* networkx, DoWhy) either returns or raises an Exception; which of the    *)
(* two happens is chosen by the environment, because the script itself     *)
(* never inspects the table or the graph.  Failures are Python Exception   *)
(* subclasses (what `except Exception` catches); interpreter-level         *)
(* BaseExceptions such as KeyboardInterrupt are outside the model.         *)
(* stdout is modelled; the interpreter's traceback goes to stderr.         *)
(***************************************************************************)
EXTENDS Integers, Sequences, FiniteSets

\* ---- bounds of the model -------------------------------------------------
MaxRows == 2
MaxEffect == 1

\* ---- module constants of estimations.py ----------------------------------
TREATMENT == "Y11_Q57"
OUTCOME == "Y11_MWIndex"

\* A third survey variable, standing for the other chosen columns.
Columns == {TREATMENT, OUTCOME, "Y11_Agecategory"}

\* ---- values --------------------------------------------------------------
\* A scalar is a record; numbers are counted in units of 1e-5 so that the
\* report's rounding to four decimals is visible.
Num(n) == [kind |-> "num", v |-> n]
NaN == [kind |-> "nan", v |-> 0]
NoneValue == [kind |-> "none", v |-> 0]

\* What est.value may hold when estimate_effect returns: a number, a
\* not-a-number produced by the library itself, or an object float() rejects.
EstValues == {Num(k * 12346) : k \in (-MaxEffect)..MaxEffect} \cup {NaN, NoneValue}

\* float(x): raises TypeError for a non-numeric object, otherwise the number.
FloatRaises(x) == x.kind = "none"
Float(x) == IF x.kind = "num" THEN Num(x.v) ELSE NaN

\* float("nan")
FloatNan == NaN

\* f"{val:.4f}": nan prints as "nan", a number is rounded to units of 1e-4.
Round4(n) == IF n >= 0 THEN (n + 5) \div 10 ELSE -((5 - n) \div 10)
Format4f(val) == IF val.kind = "nan" THEN [nan |-> TRUE, digits |-> 0]
                 ELSE [nan |-> FALSE, digits |-> Round4(val.v)]

Header == [name |-> "Estimation results (ATE):", text |-> [nan |-> FALSE, digits |-> 0]]
ReportLine(name, val) == [name |-> name, text |-> Format4f(val)]

\* ---- the fixed method list (estimate_effects) ----------------------------
methods == << "backdoor.propensity_score_matching",
              "backdoor.propensity_score_weighting",
              "backdoor.propensity_score_stratification",
              "backdoor.linear_regression" >>

\* ---- Dict[str, float] with insertion order -------------------------------
\* A dict is a sequence of <<key, value>> items.
Keys(d) == {d[n][1] : n \in 1..Len(d)}
\* d[key] = val : overwrite in place, or append a new item.
DictSet(d, key, val) ==
    IF key \in Keys(d)
    THEN [n \in 1..Len(d) |-> IF d[n][1] = key THEN <<key, val>> ELSE d[n]]
    ELSE Append(d, <<key, val>>)

\* ---- objects -------------------------------------------------------------
NoTable == [loaded |-> FALSE, rows |-> 0, cols |-> {}, binary |-> FALSE]
NoGraph == [loaded |-> FALSE, nodes |-> {}]
NoResults == [exists |-> FALSE, items |-> << >>]
NoEst == [set |-> FALSE, value |-> NaN]

\* structure_data.choose_columns(): the raw table restricted to the chosen
\* columns.
choose_columns == {[loaded |-> TRUE, rows |-> r, cols |-> Columns, binary |-> FALSE] :
                      r \in 0..MaxRows}

\* structure_data.preprocess_data(df, impute_strategy="drop", ...): rows with
\* missing values are dropped (possibly all of them) and the treatment column
\* is dichotomized at its median.
preprocess_data(t) == {[loaded |-> TRUE, rows |-> r, cols |-> t.cols, binary |-> TRUE] :
                          r \in 0..t.rows}

\* pickle.load(f): whatever graph was pickled; it may lack a table column.
PickledGraphs == {[loaded |-> TRUE, nodes |-> Columns \ miss] :
                     miss \in {{}} \cup {{c} : c \in Columns}}

VARIABLES pc, df, graph, model, estimand, i, est, results, k, stdout, exc,
          exitCode, calls, loads

vars == <<pc, df, graph, model, estimand, i, est, results, k, stdout, exc,
          exitCode, calls, loads>>

Init ==
    /\ pc = "choose_columns"
    /\ df = NoTable
    /\ graph = NoGraph
    /\ model = "none"
    /\ estimand = "none"
    /\ i = 1
    /\ est = NoEst
    /\ results = NoResults
    /\ k = 1
    /\ stdout = << >>
    /\ exc = "none"
    /\ exitCode = -1
    /\ calls = << >>
    /\ loads = [df |-> 0, graph |-> 0]

\* An exception nothing catches: it leaves main() and the interpreter exits
\* with status 1.
Propagate(site) ==
    /\ pc' = "raised"
    /\ exc' = site
    /\ exitCode' = 1

\* ---- load_data -----------------------------------------------------------
ChooseColumns ==
    /\ pc = "choose_columns"
    /\ \/ /\ \E t \in choose_columns : df' = t
          /\ pc' = "preprocess_data"
          /\ UNCHANGED <<exc, exitCode, loads>>
       \/ /\ Propagate("choose_columns")
          /\ UNCHANGED <<df, loads>>
    /\ UNCHANGED <<graph, model, estimand, i, est, results, k, stdout, calls>>

PreprocessData ==
    /\ pc = "preprocess_data"
    /\ \/ /\ \E t \in preprocess_data(df) : df' = t
          /\ loads' = [loads EXCEPT !.df = @ + 1]
          /\ pc' = "open"
          /\ UNCHANGED <<exc, exitCode>>
       \/ /\ Propagate("preprocess_data")
          /\ UNCHANGED <<df, loads>>
    /\ UNCHANGED <<graph, model, estimand, i, est, results, k, stdout, calls>>

\* ---- load_graph ----------------------------------------------------------
OpenGraphFile ==
    /\ pc = "open"
    /\ \/ /\ pc' = "pickle_load"
          /\ UNCHANGED <<exc, exitCode>>
       \/ Propagate("open")
    /\ UNCHANGED <<df, graph, model, estimand, i, est, results, k, stdout, calls, loads>>

\* Variant: a failed pickle.load is swallowed and the run goes on without a graph.
PickleLoad_Swallow ==
    /\ pc = "pickle_load"
    /\ \/ /\ \E g \in PickledGraphs : graph' = g
          /\ loads' = [loads EXCEPT !.graph = @ + 1]
       \/ UNCHANGED <<graph, loads>>
    /\ pc' = "to_pydot"
    /\ UNCHANGED <<df, model, estimand, i, est, results, k, stdout, exc, exitCode, calls>>

PickleLoad ==
    /\ pc = "pickle_load"
    /\ \/ /\ \E g \in PickledGraphs : graph' = g
          /\ loads' = [loads EXCEPT !.graph = @ + 1]
          /\ pc' = "to_pydot"
          /\ UNCHANGED <<exc, exitCode>>
       \/ /\ Propagate("pickle_load")
          /\ UNCHANGED <<graph, loads>>
    /\ UNCHANGED <<df, model, estimand, i, est, results, k, stdout, calls>>

\* ---- estimate_effects ----------------------------------------------------
\* nx.nx_pydot.to_pydot(graph).to_string(), the argument of CausalModel(...)
ToPydot ==
    /\ pc = "to_pydot"
    /\ \/ /\ pc' = "CausalModel"
          /\ UNCHANGED <<exc, exitCode>>
       \/ Propagate("to_pydot")
    /\ UNCHANGED <<df, graph, model, estimand, i, est, results, k, stdout, calls, loads>>

NewCausalModel ==
    /\ pc = "CausalModel"
    /\ \/ /\ model' = "built"
          /\ pc' = "identify_effect"
          /\ UNCHANGED <<exc, exitCode>>
       \/ /\ Propagate("CausalModel")
          /\ UNCHANGED model
    /\ UNCHANGED <<df, graph, estimand, i, est, results, k, stdout, calls, loads>>

\* Variant: identify_effect sits inside a try block; on failure the run goes on
\* without an estimand.
IdentifyEffect_Isolated ==
    /\ pc = "identify_effect"
    /\ \/ estimand' = "identified"
       \/ UNCHANGED estimand
    /\ pc' = "results"
    /\ UNCHANGED <<df, graph, model, i, est, results, k, stdout, exc, exitCode, calls, loads>>

IdentifyEffect ==
    /\ pc = "identify_effect"
    /\ \/ /\ estimand' = "identified"
          /\ pc' = "results"
          /\ UNCHANGED <<exc, exitCode>>
       \/ /\ Propagate("identify_effect")
          /\ UNCHANGED estimand
    /\ UNCHANGED <<df, graph, model, i, est, results, k, stdout, calls, loads>>

\* methods = [...]; results = {}
NewResults ==
    /\ pc = "results"
    /\ results' = [exists |-> TRUE, items |-> << >>]
    /\ i' = 1
    /\ pc' = "for"
    /\ UNCHANGED <<df, graph, model, estimand, est, k, stdout, exc, exitCode, calls, loads>>

\* for m in methods:
ForMethod ==
    /\ pc = "for"
    /\ pc' = IF i <= Len(methods) THEN "estimate_effect" ELSE "return"
    /\ UNCHANGED <<df, graph, model, estimand, i, est, results, k, stdout, exc,
                   exitCode, calls, loads>>

\* Variant: the attempt writes a propensity_score column into the caller's table.
EstimateEffect_MutatesTable ==
    /\ pc = "estimate_effect"
    /\ df' = [df EXCEPT !.cols = @ \cup {"propensity_score"}]
    /\ \/ \E v \in EstValues :
             /\ est' = [set |-> TRUE, value |-> v]
             /\ calls' = Append(calls, [method |-> methods[i], raised |-> FALSE, value |-> v])
             /\ pc' = "float"
       \/ /\ calls' = Append(calls, [method |-> methods[i], raised |-> TRUE, value |-> NaN])
          /\ pc' = "except"
          /\ UNCHANGED est
    /\ UNCHANGED <<graph, model, estimand, i, results, k, stdout, exc, exitCode, loads>>

\* est = model.estimate_effect(estimand, method_name=m)
EstimateEffect ==
    /\ pc = "estimate_effect"
    /\ \/ \E v \in EstValues :
             /\ est' = [set |-> TRUE, value |-> v]
             /\ calls' = Append(calls, [method |-> methods[i], raised |-> FALSE, value |-> v])
             /\ pc' = "float"
       \/ /\ calls' = Append(calls, [method |-> methods[i], raised |-> TRUE, value |-> NaN])
          /\ pc' = "except"
          /\ UNCHANGED est
    /\ UNCHANGED <<df, graph, model, estimand, i, results, k, stdout, exc, exitCode, loads>>

\* results[m] = float(est.value)
AssignFloat ==
    /\ pc = "float"
    /\ IF FloatRaises(est.value)
       THEN /\ pc' = "except"
            /\ UNCHANGED <<results, i>>
       ELSE /\ results' = [results EXCEPT !.items = DictSet(@, methods[i], Float(est.value))]
            /\ i' = i + 1
            /\ pc' = "for"
    /\ UNCHANGED <<df, graph, model, estimand, est, k, stdout, exc, exitCode, calls, loads>>

\* Variant: except Exception: pass
ExceptHandler_Skip ==
    /\ pc = "except"
    /\ i' = i + 1
    /\ pc' = "for"
    /\ UNCHANGED <<df, graph, model, estimand, est, results, k, stdout, exc, exitCode, calls, loads>>

\* Variant: except Exception: results[m] = float("nan"); break
ExceptHandler_Break ==
    /\ pc = "except"
    /\ results' = [results EXCEPT !.items = DictSet(@, methods[i], FloatNan)]
    /\ i' = i + 1
    /\ pc' = "return"
    /\ UNCHANGED <<df, graph, model, estimand, est, k, stdout, exc, exitCode, calls, loads>>

\* Variant: except Exception: raise
ExceptHandler_Reraise ==
    /\ pc = "except"
    /\ Propagate("estimate_effect")
    /\ UNCHANGED <<df, graph, model, estimand, i, est, results, k, stdout, calls, loads>>

\* Variant: the handler records the sentinel and tries the same method again.
ExceptHandler_Retry ==
    /\ pc = "except"
    /\ results' = [results EXCEPT !.items = DictSet(@, methods[i], FloatNan)]
    /\ pc' = "for"
    /\ UNCHANGED <<df, graph, model, estimand, i, est, k, stdout, exc, exitCode, calls, loads>>

\* except Exception: results[m] = float("nan")
ExceptHandler ==
    /\ pc = "except"
    /\ results' = [results EXCEPT !.items = DictSet(@, methods[i], FloatNan)]
    /\ i' = i + 1
    /\ pc' = "for"
    /\ UNCHANGED <<df, graph, model, estimand, est, k, stdout, exc, exitCode, calls, loads>>

\* return results
ReturnResults ==
    /\ pc = "return"
    /\ pc' = "print_header"
    /\ UNCHANGED <<df, graph, model, estimand, i, est, results, k, stdout, exc,
                   exitCode, calls, loads>>

\* ---- main: the report ----------------------------------------------------
PrintHeader ==
    /\ pc = "print_header"
    /\ stdout' = Append(stdout, Header)
    /\ k' = 1
    /\ pc' = "print_line"
    /\ UNCHANGED <<df, graph, model, estimand, i, est, results, exc, exitCode, calls, loads>>

\* Variant: the reporter leaves out the methods whose value is nan.
PrintLine_SkipNan ==
    /\ pc = "print_line"
    /\ IF k <= Len(results.items)
       THEN /\ stdout' = IF results.items[k][2].kind = "nan" THEN stdout
                         ELSE Append(stdout, ReportLine(results.items[k][1], results.items[k][2]))
            /\ k' = k + 1
            /\ UNCHANGED <<pc, exitCode>>
       ELSE /\ pc' = "done"
            /\ exitCode' = 0
            /\ UNCHANGED <<stdout, k>>
    /\ UNCHANGED <<df, graph, model, estimand, i, est, results, exc, calls, loads>>

\* for name, val in results.items(): print(f"  {name:<40} {val:.4f}")
PrintLine ==
    /\ pc = "print_line"
    /\ IF k <= Len(results.items)
       THEN /\ stdout' = Append(stdout, ReportLine(results.items[k][1], results.items[k][2]))
            /\ k' = k + 1
            /\ UNCHANGED <<pc, exitCode>>
       ELSE /\ pc' = "done"
            /\ exitCode' = 0
            /\ UNCHANGED <<stdout, k>>
    /\ UNCHANGED <<df, graph, model, estimand, i, est, results, exc, calls, loads>>

Next ==
    \/ ChooseColumns
    \/ PreprocessData
    \/ OpenGraphFile
    \/ PickleLoad
    \/ ToPydot
    \/ NewCausalModel
    \/ IdentifyEffect
    \/ NewResults
    \/ ForMethod
    \/ EstimateEffect
    \/ AssignFloat
    \/ ExceptHandler
    \/ ReturnResults
    \/ PrintHeader
    \/ PrintLine

Spec == Init /\ [][Next]_vars

\* The script is one sequential thread: whenever a statement is enabled the
\* interpreter executes it.
FairSpec == Spec /\ WF_vars(Next)

\* ==== properties ==========================================================

\* The four configured method identifiers, in list order.
ConfiguredMethods == << "backdoor.propensity_score_matching",
                        "backdoor.propensity_score_weighting",
                        "backdoor.propensity_score_stratification",
                        "backdoor.linear_regression" >>
ConfiguredSet == {ConfiguredMethods[n] : n \in 1..4}

\* estimate_effects has returned (or is about to return) its mapping.
AfterLoop == pc \in {"return", "print_header", "print_line", "done"}
InLoop == pc \in {"for", "estimate_effect", "float", "except"}
LoadSites == {"choose_columns", "preprocess_data", "open", "pickle_load"}
ModelSites == {"to_pydot", "CausalModel", "identify_effect"}

\* The attempt logged as calls[n] failed: the library raised, or float() did.
Failed(c) == c.raised \/ c.value.kind = "none"
AllSentinel == /\ Len(results.items) = 4
               /\ \A n \in 1..4 : results.items[n][2] = NaN
Mismatch == df.cols \ graph.nodes # {}

\* C1: the mapping estimate_effects returns has exactly the four configured
\* method identifiers as keys, one item each, whatever attempts failed; while
\* it is being filled it never holds any other key.
C1_ExactlyFourKeys ==
    /\ Keys(results.items) \subseteq ConfiguredSet
    /\ AfterLoop => /\ results.exists
                    /\ Keys(results.items) = ConfiguredSet
                    /\ Len(results.items) = 4

C1_Witness ==
    /\ pc = "done"
    /\ \E a, b \in 1..4 : /\ Failed(calls[a])
                          /\ ~Failed(calls[b])

\* C2: every recorded entry is the sentinel when its attempt failed and the
\* library's scalar when it succeeded, entries of earlier methods keep that
\* value while later methods run, and all four methods have been attempted
\* when the loop is over, whichever of them failed.
C2_FailureIsolation ==
    /\ Len(results.items) <= Len(calls)
    /\ \A n \in 1..Len(results.items) :
          /\ results.items[n][1] = calls[n].method
          /\ results.items[n][2] = IF Failed(calls[n]) THEN NaN ELSE calls[n].value
    /\ AfterLoop => Len(calls) = 4 /\ Len(results.items) = 4
    /\ (InLoop \/ AfterLoop) => exc = "none" /\ exitCode # 1

C2_Witness ==
    /\ pc = "done"
    /\ calls[1].raised
    /\ ~Failed(calls[2]) /\ calls[2].value.kind = "num" /\ calls[2].value.v # 0
    /\ calls[3].value.kind = "none" /\ ~calls[3].raised
    /\ ~Failed(calls[4])

\* C3: with a graph that lacks a column of the (non-empty) table, here the
\* treatment column, the run
\* never ends in a failure raised by model construction or identification,
\* and a finished run has the sentinel for all four methods.
C3_MismatchOnlySentinels ==
    (loads.graph = 1 /\ Mismatch /\ TREATMENT \notin graph.nodes /\ df.rows > 0) =>
        /\ ~(pc = "raised" /\ exc \in {"CausalModel", "identify_effect"})
        /\ pc = "done" => AllSentinel

\* C4: a failure of choose_columns, preprocess_data, open or pickle.load ends
\* the run with that failure (no step follows it): no model was built, no
\* method attempted, no mapping created, nothing printed; the run never gets
\* past loading without both the table and the graph.
C4_LoadFailureState ==
    /\ (pc = "raised" /\ exc \in LoadSites) =>
          /\ model = "none" /\ estimand = "none"
          /\ calls = << >>
          /\ ~results.exists
          /\ stdout = << >>
          /\ exitCode = 1
    /\ pc \notin (LoadSites \cup {"raised"}) => loads = [df |-> 1, graph |-> 1]
    /\ pc \in (ModelSites \cup {"results"}) \cup {"for", "estimate_effect", "float",
               "except", "return", "print_header", "print_line", "done"}
          => df.loaded /\ graph.loaded
C4_LoadFailureIsFatal == [](C4_LoadFailureState) /\ [][pc # "raised"]_vars

C4_Witness == pc = "raised" /\ exc = "pickle_load" /\ df.loaded /\ loads.df = 1

\* C5: once the estimand is identified the run reaches normal completion
\* (header and four lines printed, exit status 0), whatever attempts fail.
C5_AlwaysCompletes ==
    (estimand = "identified") ~> (pc = "done" /\ exitCode = 0 /\ Len(stdout) = 5)

C5_Witness == pc = "done" /\ exitCode = 0 /\ AllSentinel /\ \A n \in 1..4 : Failed(calls[n])

\* C6: with a table of zero rows (and a graph that has every column) the run
\* never ends as a completed report whose four methods all carry the
\* sentinel because each estimator raised.
C6_EmptyTableNeverSilentSentinels ==
    ~(/\ loads.df = 1 /\ df.rows = 0 /\ ~Mismatch
      /\ pc = "done" /\ AllSentinel
      /\ \A n \in 1..Len(calls) : calls[n].raised)

\* C7: nothing is printed before all four attempts are over; what is printed
\* is the header followed by one line per item of the mapping in the order the
\* methods ran, five lines in a completed run; the line of a failed method
\* shows nan and nothing else is printed for it.
C7_Report ==
    /\ pc \notin {"print_line", "done"} => stdout = << >>
    /\ stdout # << >> => /\ Len(calls) = 4
                         /\ stdout[1] = Header
                         /\ Len(stdout) <= 5
    /\ \A n \in 2..Len(stdout) :
          /\ stdout[n].name = ConfiguredMethods[n - 1]
          /\ stdout[n].name = calls[n - 1].method
          /\ Failed(calls[n - 1]) => stdout[n].text.nan
          /\ calls[n - 1].value.kind = "num" /\ ~calls[n - 1].raised => ~stdout[n].text.nan
    /\ pc = "done" => Len(stdout) = 5

C7_Witness ==
    /\ pc = "done"
    /\ Failed(calls[2]) /\ stdout[3].text.nan
    /\ ~stdout[2].text.nan /\ stdout[2].text.digits = 1235

\* C8: the attempts are matching, weighting, stratification, linear
\* regression in that order, each exactly once, and an attempt starts only
\* when the entry of the previous one has been recorded.
C8_AttemptOrder ==
    /\ Len(calls) <= 4
    /\ \A n \in 1..Len(calls) : calls[n].method = ConfiguredMethods[n]
    /\ Len(calls) - Len(results.items) \in {0, 1}
    /\ pc = "estimate_effect" => Len(results.items) = Len(calls)
    /\ AfterLoop => Len(calls) = 4

C8_Witness ==
    /\ pc = "estimate_effect"
    /\ Len(calls) = 2
    /\ calls[1].raised /\ calls[2].raised

\* C9: the table and the graph are each loaded once, before any attempt, and
\* no later step changes them; a step of the estimation loop changes nothing
\* but the mapping and the loop's own locals.
C9_LoadedOnce ==
    /\ loads.df <= 1 /\ loads.graph <= 1
    /\ (calls # << >> \/ model # "none") => loads = [df |-> 1, graph |-> 1]
C9_FrameStep ==
    /\ loads.df = 1 => df' = df /\ loads'.df = 1
    /\ loads.graph = 1 => graph' = graph /\ loads'.graph = 1
    /\ InLoop => UNCHANGED <<df, graph, model, estimand, stdout, k, exc, exitCode, loads>>
C10_IsolationBoundary ==
    /\ (pc = "raised" /\ exc \in ModelSites) =>
          /\ ~results.exists
          /\ calls = << >>
          /\ stdout = << >>
    /\ results.exists => model = "built" /\ estimand = "identified"
    /\ exc \in LoadSites \cup ModelSites \cup {"none"}

C10_Witness ==
    /\ pc = "raised"
    /\ exc = "identify_effect"
    /\ model = "built"

====
